---- MODULE Spec2Model ----
(***************************************************************************)
(* A model of ClusterManager's step watching (src/cluster_manager.py):     *)
(* watch_step, the poller process _poll, the listener process _listener,   *)
(* the one duplex Pipe made in __init__, and the blocking report_step.     *)
(*                                                                         *)
(* One ClusterManager, one caller thread.  Every watch_step call is a      *)
(* "session" numbered 1..MaxCalls in call order.  The remote service is    *)
(* not constrained: each describe_step query answers with any step state.  *)
(* Processes are forked, so each child holds its own copy of both pipe     *)
(* ends; closing a copy closes only that copy.                             *)
(***************************************************************************)
EXTENDS Integers, Sequences, FiniteSets, TLC

\* ---- bounds of the model ----
MaxCalls == 2
MaxSends == 3
ChanCap == 2
MaxSleeps == 3
MaxSteps == 2
MaxPieces == 3

\* ---- program constants ----
None == "None"
GARBLED == "GARBLED"
cb == "cb"
ShutdownStates == {"COMPLETED", "CANCELLED", "FAILED", "INTERRUPTED"}
ValidStates ==
    {"PENDING", "CANCEL_PENDING", "RUNNING",
     "COMPLETED", "CANCELLED", "FAILED", "INTERRUPTED"}
\* ---- inputs the model draws from ----
\* <<callback, callback_arg>>: no callback (with or without a target), a callback
\* with a target that is no state, a callback with a target state.
WatchInputs ==
    {<<None, None>>, <<None, "RUNNING">>,
     <<cb, "BOGUS">>, <<cb, "RUNNING">>, <<cb, "COMPLETED">>}
\* step_status(...)[0]["state"]: the answers a describe_step query is given while
\* a step is watched, and while report_step waits (which runs alone).
QueryResults == {"RUNNING", "COMPLETED", "FAILED"}
ReportQueryResults == ValidStates
Sessions == 1 .. MaxCalls

VARIABLES
    callerPc,    \* where the caller thread is: "idle" or a line of watch_step / report_step
    nCalls,      \* watch_step calls made so far; the current session is nCalls
    callback,    \* callback[i]: the callback argument of call i (None or cb)
    callbackArg, \* callbackArg[i]: the callback_arg argument of call i
    outcome,     \* outcome[i]: how call i ended: None, "returned", "rejected", "raised"
    pollPc,      \* pollPc[i]: position of session i's _poll process
    observed,    \* observed[i]: the state whose test at line 211 ended the poller's loop
    lsnPc,       \* lsnPc[i]: position of session i's _listener process
    fired,       \* fired[i]: number of times session i's callback was invoked
    chan,        \* messages sent on _tx_poll and not yet received on _rx_poll
    txHolders,   \* processes holding an open copy of _tx_poll
    nSent,       \* messages sent so far; the k-th message sent carries seq = k
    lastSent,    \* lastSent[i]: the last state session i's poller sent (None: nothing yet)
    nRecv,       \* messages received so far, by any reader
    lastRead,    \* the last message received: what the reader got, and what had been sent
    callerReads, \* callerReads[i]: messages call i consumed at line 263
    lsnReads,    \* lsnReads[i]: messages session i's listener consumed
    sawTarget,   \* sawTarget[i]: session i's listener has consumed a state equal to its target
    reportPc,    \* report_step: position of the caller inside report_step
    sleeps,      \* report_step: sleeps taken by the current call
    stopState,   \* report_step: the state whose test at line 237 ended the loop
    reportRet,   \* report_step: the value returned by the last call
    req,         \* the last call of a one-shot operation: its name and its inputs
    res,         \* what that call did: returned value or raised exception, remote calls made
    remote       \* the state of the watched step at the service; None: not followed,
                 \* every query may then answer any state

vars ==
    <<callerPc, nCalls, callback, callbackArg, outcome, pollPc, observed,
      lsnPc, fired, chan, txHolders, nSent, lastSent, nRecv, lastRead,
      callerReads, lsnReads, sawTarget,
      reportPc, sleeps, stopState, reportRet, req, res, remote>>

watchVars ==
    <<callerPc, nCalls, callback, callbackArg, outcome, pollPc, observed,
      lsnPc, fired, chan, txHolders, nSent, lastSent, nRecv, lastRead,
      callerReads, lsnReads, sawTarget, remote>>

reportVars == <<reportPc, sleeps, stopState, reportRet>>

callVars == <<req, res>>

Main == [role |-> "main", sess |-> 0]
Poller(i) == [role |-> "poller", sess |-> i]
Listener(i) == [role |-> "listener", sess |-> i]
Caller(i) == [role |-> "caller", sess |-> i]

\* The state after ClusterManager() (and Session()): nothing called yet.
Fresh ==
    /\ callerPc = "idle"
    /\ nCalls = 0
    /\ callback = [i \in Sessions |-> None]
    /\ callbackArg = [i \in Sessions |-> None]
    /\ outcome = [i \in Sessions |-> None]
    /\ pollPc = [i \in Sessions |-> "none"]
    /\ observed = [i \in Sessions |-> None]
    /\ lsnPc = [i \in Sessions |-> "none"]
    /\ fired = [i \in Sessions |-> 0]
    /\ chan = <<>>
    /\ txHolders = {Main}
    /\ nSent = 0
    /\ lastSent = [i \in Sessions |-> None]
    /\ nRecv = 0
    /\ lastRead = None
    /\ callerReads = [i \in Sessions |-> 0]
    /\ lsnReads = [i \in Sessions |-> 0]
    /\ sawTarget = [i \in Sessions |-> FALSE]
    /\ reportPc = "idle"
    /\ sleeps = 0
    /\ stopState = None
    /\ reportRet = None
    /\ req = [op |-> "none"]
    /\ res = [kind |-> "none"]

Init ==
    /\ Fresh
    /\ remote = None

\* ---- the pipe (multiprocessing.Pipe, duplex; messages travel _tx_poll -> _rx_poll) ----

\* Connection.send: the message is queued behind those already in the pipe.
Put(q, m) == Append(q, m)

\* Connection.recv: the oldest message of the pipe.
Front(q) == Head(q)

\* What is left in the pipe after Connection.recv.
Rest(q) == Tail(q)

\* Processes blocked in, or about to enter, _rx_poll.recv().
ReadersWaiting ==
    {Listener(i) : i \in {j \in Sessions : lsnPc[j] \in {"l223", "l226"}}}
        \cup (IF callerPc = "l263" THEN {Caller(nCalls)} ELSE {})

\* Pollers inside _tx_poll.send().
WritersSending == {i \in Sessions : pollPc[i] = "l212"}

\* multiprocessing: data in a pipe may become corrupted if two processes read
\* from, or write to, the same end at the same time.  A reader that is not
\* alone may get garbage instead of the message; so may a message written
\* while another poller is writing.
RecvOutcomes ==
    {Front(chan).st} \cup (IF Cardinality(ReadersWaiting) > 1 THEN {GARBLED} ELSE {})

SendOutcomes(s) ==
    {s} \cup (IF Cardinality(WritersSending) > 1 THEN {GARBLED} ELSE {})

\* recv raises EOFError only when the pipe is empty and no process holds _tx_poll.
CanRecv == ~(chan = <<>> /\ txHolders # {})

\* A read that leaves the message in the pipe.
TakePeek(got) ==
    /\ chan' = chan
    /\ nRecv' = nRecv + 1
    /\ lastRead' = [st |-> got, pub |-> Front(chan).pub, seq |-> Front(chan).seq]

\* One successful _rx_poll.recv() that returned got: the message leaves the pipe.
Take(got) ==
    /\ chan' = Rest(chan)
    /\ nRecv' = nRecv + 1
    /\ lastRead' = [st |-> got, pub |-> Front(chan).pub, seq |-> Front(chan).seq]

\* ---- watch_step (lines 241-278), run by the caller ----

\* Whether line 274 accepts the target state.
IsValidTarget(a) == a \in ValidStates

\* lines 254-255: the poller process is created and started first.
WatchCall(c, a) ==
    /\ callerPc = "idle"
    /\ nCalls < MaxCalls
    /\ nCalls' = nCalls + 1
    /\ callback' = [callback EXCEPT ![nCalls + 1] = c]
    /\ callbackArg' = [callbackArg EXCEPT ![nCalls + 1] = a]
    /\ pollPc' = [pollPc EXCEPT ![nCalls + 1] = "l211"]
    /\ txHolders' = txHolders \cup {Poller(nCalls + 1)}
    /\ callerPc' = "l262"
    /\ UNCHANGED <<outcome, observed, lsnPc, fired, chan, nSent, lastSent,
                   nRecv, lastRead, callerReads, lsnReads, sawTarget>>
    /\ UNCHANGED <<reportVars, callVars, remote>>

\* A watch_step whose caller waits for the first state also when it has a callback.
BranchTargetWaiting(c, a) ==
    IF c = None THEN "l263"
    ELSE IF ~IsValidTarget(a) THEN "idle"
    ELSE "l263"

\* Where line 262 and lines 274-276 send the caller.
BranchTarget(c, a) ==
    IF c = None THEN "l263"
    ELSE IF ~IsValidTarget(a) THEN "idle"
    ELSE "l277"

\* lines 262-276: no callback -> the blocking read of line 263; a callback with
\* an invalid target -> the message of line 275 and return; else line 277.
WatchBranch ==
    /\ callerPc = "l262"
    /\ callerPc' = BranchTarget(callback[nCalls], callbackArg[nCalls])
    /\ outcome' =
         IF callerPc' = "idle" THEN [outcome EXCEPT ![nCalls] = "rejected"] ELSE outcome
    /\ UNCHANGED <<nCalls, callback, callbackArg, pollPc, observed, lsnPc,
                   fired, chan, txHolders, nSent, lastSent, nRecv, lastRead,
                   callerReads, lsnReads, sawTarget>>
    /\ UNCHANGED <<reportVars, callVars, remote>>

\* line 263: the caller itself reads one message and prints it.
WatchRecv ==
    /\ callerPc = "l263"
    /\ CanRecv
    /\ IF chan = <<>>
       THEN /\ callerPc' = "idle"
            /\ outcome' = [outcome EXCEPT ![nCalls] = "raised"]
            /\ UNCHANGED <<chan, nRecv, lastRead, callerReads>>
       ELSE \E got \in RecvOutcomes :
            /\ Take(got)
            /\ callerReads' = [callerReads EXCEPT ![nCalls] = @ + 1]
            /\ callerPc' = IF got = GARBLED THEN "idle" ELSE "l277"
            /\ outcome' =
                 IF got = GARBLED THEN [outcome EXCEPT ![nCalls] = "raised"] ELSE outcome
    /\ UNCHANGED <<nCalls, callback, callbackArg, pollPc, observed, lsnPc,
                   fired, txHolders, nSent, lastSent, lsnReads, sawTarget>>
    /\ UNCHANGED <<reportVars, callVars, remote>>

\* lines 277-278: the listener process is created and started; watch_step returns.
WatchStartListener ==
    /\ callerPc = "l277"
    /\ lsnPc' = [lsnPc EXCEPT ![nCalls] = "l223"]
    /\ txHolders' = txHolders \cup {Listener(nCalls)}
    /\ outcome' = [outcome EXCEPT ![nCalls] = "returned"]
    /\ callerPc' = "idle"
    /\ UNCHANGED <<nCalls, callback, callbackArg, pollPc, observed, fired,
                   chan, nSent, lastSent, nRecv, lastRead, callerReads, lsnReads,
                   sawTarget>>
    /\ UNCHANGED <<reportVars, callVars, remote>>

\* ---- _poll (lines 208-219), one process per watch_step call ----

\* What describe_step can answer to a query made now.
Answers == IF remote = None THEN QueryResults ELSE {remote}

\* Whether the loop test of line 211 ends the loop on state s.
IsShutdown(s) == s \in ShutdownStates

\* line 211: the loop test queries the step; a shutdown state ends the loop.
PollTest(i) ==
    /\ pollPc[i] = "l211"
    /\ \E s \in Answers :
         /\ ~IsShutdown(s) => nSent < MaxSends
         /\ pollPc' = [pollPc EXCEPT ![i] = IF IsShutdown(s) THEN "l219" ELSE "l212"]
         /\ observed' = [observed EXCEPT ![i] = IF IsShutdown(s) THEN s ELSE @]
    /\ UNCHANGED <<callerPc, nCalls, callback, callbackArg, outcome, lsnPc,
                   fired, chan, txHolders, nSent, lastSent, nRecv, lastRead,
                   callerReads, lsnReads, sawTarget>>
    /\ UNCHANGED <<reportVars, callVars, remote>>

\* lines 212-213: the loop body queries the step again, sends that answer, sleeps.
PollSend(i) ==
    /\ pollPc[i] = "l212"
    /\ Len(chan) < ChanCap
    /\ nSent < MaxSends
    /\ \E s \in Answers :
         /\ \E w \in SendOutcomes(s) :
              chan' = Put(chan, [st |-> w, pub |-> s, seq |-> nSent + 1, src |-> i])
         /\ lastSent' = [lastSent EXCEPT ![i] = s]
    /\ nSent' = nSent + 1
    /\ pollPc' = [pollPc EXCEPT ![i] = "l211"]
    /\ UNCHANGED <<callerPc, nCalls, callback, callbackArg, outcome, observed, lsnPc,
                   fired, txHolders, nRecv, lastRead, callerReads, lsnReads, sawTarget>>
    /\ UNCHANGED <<reportVars, callVars, remote>>

\* lines 214-219: the poller closes its own copy of _tx_poll and ends.
PollClose(i) ==
    /\ pollPc[i] = "l219"
    /\ txHolders' = txHolders \ {Poller(i)}
    /\ pollPc' = [pollPc EXCEPT ![i] = "done"]
    /\ UNCHANGED <<callerPc, nCalls, callback, callbackArg, outcome, observed,
                   lsnPc, fired, chan, nSent, lastSent, nRecv, lastRead, callerReads,
                   lsnReads, sawTarget>>
    /\ UNCHANGED <<reportVars, callVars, remote>>

\* ---- _listener (lines 221-229), one process per watch_step call that reaches line 277 ----

\* Where the listener goes after the recv of line 223 returned got.
AfterCompare(got, a) == IF got # a THEN "l226" ELSE "l229"

\* Where the listener goes after the recv of line 226 returned.
AfterReport == "l223"

\* One _rx_poll.recv() by listener i at position here; an exception ends the process.
ListenerRecv(i, here) ==
    /\ lsnPc[i] = here
    /\ CanRecv
    /\ IF chan = <<>>
       THEN /\ lsnPc' = [lsnPc EXCEPT ![i] = "error"]
            /\ txHolders' = txHolders \ {Listener(i)}
            /\ UNCHANGED <<chan, nRecv, lastRead, lsnReads, sawTarget>>
       ELSE \E got \in RecvOutcomes :
            /\ Take(got)
            /\ lsnReads' = [lsnReads EXCEPT ![i] = @ + 1]
            /\ sawTarget' = [sawTarget EXCEPT ![i] = @ \/ got = callbackArg[i]]
            /\ lsnPc' = [lsnPc EXCEPT ![i] =
                   IF got = GARBLED THEN "error"
                   ELSE IF here = "l223" THEN AfterCompare(got, callbackArg[i])
                   ELSE AfterReport]
            /\ txHolders' = IF got = GARBLED THEN txHolders \ {Listener(i)} ELSE txHolders
    /\ UNCHANGED <<callerPc, nCalls, callback, callbackArg, outcome, pollPc,
                   observed, fired, nSent, lastSent, callerReads>>
    /\ UNCHANGED <<reportVars, callVars, remote>>

\* line 223: the loop test reads a message and compares it with callback_arg.
ListenerCompare(i) == ListenerRecv(i, "l223")

\* lines 224-228: the loop body reads another message to print it.
ListenerReport(i) == ListenerRecv(i, "l226")

\* line 229: callback(); calling None raises TypeError.
ListenerCallback(i) ==
    /\ lsnPc[i] = "l229"
    /\ lsnPc' = [lsnPc EXCEPT ![i] = IF callback[i] = None THEN "error" ELSE "done"]
    /\ fired' = [fired EXCEPT ![i] = IF callback[i] = None THEN @ ELSE @ + 1]
    /\ txHolders' = txHolders \ {Listener(i)}
    /\ UNCHANGED <<callerPc, nCalls, callback, callbackArg, outcome, pollPc,
                   observed, chan, nSent, lastSent, nRecv, lastRead, callerReads,
                   lsnReads, sawTarget>>
    /\ UNCHANGED <<reportVars, callVars, remote>>

Next ==
    \/ \E inp \in WatchInputs : WatchCall(inp[1], inp[2])
    \/ WatchBranch
    \/ WatchRecv
    \/ WatchStartListener
    \/ \E i \in Sessions : PollTest(i)
    \/ \E i \in Sessions : PollSend(i)
    \/ \E i \in Sessions : PollClose(i)
    \/ \E i \in Sessions : ListenerCompare(i)
    \/ \E i \in Sessions : ListenerReport(i)
    \/ \E i \in Sessions : ListenerCallback(i)

Spec == Init /\ [][Next]_vars

\* A fresh ClusterManager on which watch_step is called once.
OneCallNext ==
    \/ nCalls = 0 /\ \E inp \in WatchInputs : WatchCall(inp[1], inp[2])
    \/ WatchBranch
    \/ WatchRecv
    \/ WatchStartListener
    \/ \E i \in Sessions : PollTest(i)
    \/ \E i \in Sessions : PollSend(i)
    \/ \E i \in Sessions : PollClose(i)
    \/ \E i \in Sessions : ListenerCompare(i)
    \/ \E i \in Sessions : ListenerReport(i)
    \/ \E i \in Sessions : ListenerCallback(i)

OneCallSpec == Init /\ [][OneCallNext]_vars

\* ---- one watch_step call on a step the service is followed through ----

\* The step ends at the service: a step that runs completes or fails, and a
\* step that has ended stays as it is.
StepEnds ==
    /\ remote \notin {None} \cup ShutdownStates
    /\ remote' \in QueryResults \cap ShutdownStates
    /\ UNCHANGED <<callerPc, nCalls, callback, callbackArg, outcome, pollPc, observed,
                   lsnPc, fired, chan, txHolders, nSent, lastSent, nRecv, lastRead,
                   callerReads, lsnReads, sawTarget>>
    /\ UNCHANGED <<reportVars, callVars>>

\* watch_step is called on a step that runs or has already ended.
TrackedInit ==
    /\ Fresh
    /\ remote \in QueryResults

TrackedNext ==
    \/ nCalls = 0 /\ \E inp \in WatchInputs : WatchCall(inp[1], inp[2])
    \/ WatchBranch
    \/ WatchRecv
    \/ WatchStartListener
    \/ \E i \in Sessions : PollTest(i)
    \/ \E i \in Sessions : PollSend(i)
    \/ \E i \in Sessions : PollClose(i)
    \/ \E i \in Sessions : ListenerCompare(i)
    \/ \E i \in Sessions : ListenerReport(i)
    \/ \E i \in Sessions : ListenerCallback(i)
    \/ StepEnds

\* Every process that can take its next step takes it (the operating system
\* schedules the caller, the poller and the listener), and the step ends.
Fairness ==
    /\ WF_vars(StepEnds)
    /\ WF_vars(WatchBranch)
    /\ WF_vars(WatchRecv)
    /\ WF_vars(WatchStartListener)
    /\ \A i \in Sessions :
        /\ WF_vars(PollTest(i))
        /\ WF_vars(PollSend(i))
        /\ WF_vars(PollClose(i))
        /\ WF_vars(ListenerCompare(i))
        /\ WF_vars(ListenerReport(i))
        /\ WF_vars(ListenerCallback(i))

FairSpec == TrackedInit /\ [][TrackedNext]_vars /\ Fairness

\* ---- report_step (lines 231-239), run by the caller ----

ReportCall ==
    /\ reportPc = "idle"
    /\ reportPc' = "l237"
    /\ sleeps' = 0
    /\ stopState' = None
    /\ reportRet' = None
    /\ UNCHANGED <<watchVars, callVars>>

\* line 237: the loop test queries the step; a shutdown state ends the loop.
ReportTest ==
    /\ reportPc = "l237"
    /\ \E s \in ReportQueryResults :
         /\ ~IsShutdown(s) => sleeps < MaxSleeps
         /\ reportPc' = IF IsShutdown(s) THEN "l239" ELSE "l238"
         /\ stopState' = IF IsShutdown(s) THEN s ELSE stopState
    /\ UNCHANGED <<sleeps, reportRet>>
    /\ UNCHANGED <<watchVars, callVars>>

\* line 238: sleep, then test again.
ReportSleep ==
    /\ reportPc = "l238"
    /\ sleeps' = sleeps + 1
    /\ reportPc' = "l237"
    /\ UNCHANGED <<stopState, reportRet>>
    /\ UNCHANGED <<watchVars, callVars>>

\* The value line 239 returns: the answer s of its own query, after the loop
\* stopped on state stop.
ReturnValue(s, stop) == s

\* line 239: the step is queried once more and that answer is returned.
ReportReturn ==
    /\ reportPc = "l239"
    /\ \E s \in ReportQueryResults : reportRet' = ReturnValue(s, stopState)
    /\ reportPc' = "idle"
    /\ UNCHANGED <<sleeps, stopState>>
    /\ UNCHANGED <<watchVars, callVars>>

ReportNext ==
    \/ ReportCall
    \/ ReportTest
    \/ ReportSleep
    \/ ReportReturn

ReportSpec == Init /\ [][ReportNext]_vars

\* ---- one-shot operations: each call is one step, from its inputs to its result ----

Returned(v, msg) == [kind |-> "returned", value |-> v, printed |-> msg]
Raised(e) == [kind |-> "raised", exc |-> e]

\* A dictionary is a function; key in dict is key \in DOMAIN dict.
EmptyDict == <<>>
HasKey(d, k) == k \in DOMAIN d

\* run_job_flow responses: with the cluster identifier, or without it.
RunJobFlowResponses ==
    {[JobFlowId |-> "j-1"], [JobFlowId |-> "j-2"], [ResponseMetadata |-> "r"]}

\* list_steps outcomes: a response with 0..MaxSteps steps, or an error of the service.
StepIds == {"s-1", "s-2"}
ListStepsResponses ==
    {[Steps |-> ids] :
        ids \in UNION {[1 .. n -> {[Id |-> x] : x \in StepIds}] : n \in 0 .. MaxSteps}}
ListStepsOutcomes == ListStepsResponses \cup {[Error |-> "ClientError"]}

\* launch_cluster, lines 118-123: res = "" unless the response has JobFlowId.
LaunchCluster(response) ==
    IF HasKey(response, "JobFlowId")
    THEN Returned(response.JobFlowId, FALSE)
    ELSE Returned("", TRUE)

\* launch_cluster_with_jobs, lines 136 and 191-201: res[cluster_id] = [] is set
\* only when the response has JobFlowId; list_steps is called in either case and
\* every step it lists is appended to res[cluster_id].
LaunchClusterWithJobs(cluster_response, step_response) ==
    LET found == HasKey(cluster_response, "JobFlowId")
        cluster_id == IF found THEN cluster_response.JobFlowId ELSE ""
        ids == [k \in 1 .. Len(step_response.Steps) |-> step_response.Steps[k].Id]
    IN  IF HasKey(step_response, "Error") THEN Raised(step_response.Error)
        ELSE IF step_response.Steps = <<>>
             THEN Returned(IF found THEN cluster_id :> <<>> ELSE EmptyDict, ~found)
        ELSE IF ~found THEN Raised("KeyError")
        ELSE Returned(cluster_id :> ids, FALSE)

\* One call of a one-shot operation at a time: req and res hold the call and
\* its result until the caller has taken the result.
NoCallPending == req.op = "none"
TakeResult ==
    /\ ~NoCallPending
    /\ req' = [op |-> "none"]
    /\ res' = [kind |-> "none"]
    /\ UNCHANGED <<watchVars, reportVars>>

CallLaunchCluster ==
    /\ NoCallPending
    /\ \E response \in RunJobFlowResponses :
         /\ req' = [op |-> "launch_cluster", response |-> response]
         /\ res' = LaunchCluster(response)
    /\ UNCHANGED <<watchVars, reportVars>>

CallLaunchClusterWithJobs ==
    /\ NoCallPending
    /\ \E response \in RunJobFlowResponses, steps \in ListStepsOutcomes :
         /\ req' = [op |-> "launch_cluster_with_jobs", response |-> response,
                    step_response |-> steps]
         /\ res' = LaunchClusterWithJobs(response, steps)
    /\ UNCHANGED <<watchVars, reportVars>>

\* ---- strings: a string is the sequence of its characters ----

Scheme == <<"s", "3", ":", "/", "/">>
Slash == <<"/">>
StderrGz == <<"s", "t", "d", "e", "r", "r", ".", "g", "z">>

\* str.startswith / str.endswith
StartsWith(s, p) == Len(p) <= Len(s) /\ SubSeq(s, 1, Len(p)) = p
EndsWith(s, p) == Len(p) <= Len(s) /\ SubSeq(s, Len(s) - Len(p) + 1, Len(s)) = p

\* str.find: the first position of sep in s (1-based), 0 if there is none.
Find(s, sep) ==
    LET hits == {i \in 1 .. Len(s) - Len(sep) + 1 : SubSeq(s, i, i + Len(sep) - 1) = sep}
    IN  IF hits = {} THEN 0 ELSE CHOOSE i \in hits : \A j \in hits : i <= j

\* str.split(sep): s cut at every occurrence of sep, left to right.
RECURSIVE Split(_, _)
Split(s, sep) ==
    LET i == Find(s, sep)
    IN  IF i = 0 THEN <<s>>
        ELSE <<SubSeq(s, 1, i - 1)>> \o Split(SubSeq(s, i + Len(sep), Len(s)), sep)

\* str.strip("/"): leading and trailing slashes removed.
RECURSIVE Strip(_)
Strip(s) ==
    IF s # <<>> /\ Head(s) = "/" THEN Strip(Tail(s))
    ELSE IF s # <<>> /\ s[Len(s)] = "/" THEN Strip(SubSeq(s, 1, Len(s) - 1))
    ELSE s

\* re.match(r"s3:\/\/.*?\/", path).group(): the scheme and the shortest run of
\* characters up to and including the next slash; <<>> stands for no match.
ReMatch(path) ==
    IF ~StartsWith(path, Scheme) THEN <<>>
    ELSE LET i == Find(SubSeq(path, Len(Scheme) + 1, Len(path)), Slash)
         IN  IF i = 0 THEN <<>> ELSE SubSeq(path, 1, Len(Scheme) + i)

\* lines 151 / 307: regex.split("s3://")[1].strip("/")
BucketOf(regex) == Strip(Split(regex, Scheme)[2])

\* lines 152 / 308: path.split(regex)[1]
KeyOf(path, regex) == Split(path, regex)[2]

\* parse_path (src/s3_manager.py lines 148-157); None.group() raises AttributeError.
ParsePath(path) ==
    LET regex == ReMatch(path)
    IN  IF regex = <<>> THEN Raised("AttributeError")
        ELSE Returned([path |-> path, bucket |-> BucketOf(regex),
                       key |-> KeyOf(path, regex)], FALSE)

\* Paths the model draws: s3://bucket/key with the key made of up to MaxPieces
\* pieces, and two strings that are no such path.
Buckets == {<<"b">>, <<"b", "2">>}
KeyPieces == {<<"a">>, Slash, Scheme \o <<"b">> \o Slash, StderrGz}
RECURSIVE KeysOf(_)
KeysOf(n) ==
    IF n = 0 THEN {<<>>}
    ELSE LET shorter == KeysOf(n - 1)
         IN  shorter \cup {k \o piece : k \in shorter, piece \in KeyPieces}
Keys == KeysOf(MaxPieces)
PathOf(bucket, key) == Scheme \o bucket \o Slash \o key
MalformedPaths == {Scheme \o <<"b">>, <<"b", "/", "a">>}

CallParsePath ==
    /\ NoCallPending
    /\ \/ \E bucket \in Buckets, key \in Keys :
            /\ req' = [op |-> "parse_path", path |-> PathOf(bucket, key),
                       wellFormed |-> TRUE, bucket |-> bucket, key |-> key]
            /\ res' = ParsePath(PathOf(bucket, key))
       \/ \E path \in MalformedPaths :
            /\ req' = [op |-> "parse_path", path |-> path, wellFormed |-> FALSE]
            /\ res' = ParsePath(path)
    /\ UNCHANGED <<watchVars, reportVars>>

\* ---- step_status (lines 280-324) ----

\* lines 309-310: the key asked of the storage layer.  ResolveKeyAlways is the
\* rule without its test.
ResolveKeyAlways(logfile_key) == logfile_key \o StderrGz
ResolveKey(logfile_key) ==
    IF ~EndsWith(logfile_key, StderrGz) THEN logfile_key \o StderrGz ELSE logfile_key

\* What get_object can answer: a gzip body, a body that is no gzip stream, or a
\* ClientError with its code.
NoSuchKey == [kind |-> "error", code |-> "NoSuchKey"]
GetObjectOutcomes ==
    {[kind |-> "body", gzip |-> TRUE, text |-> "trace"],
     [kind |-> "body", gzip |-> FALSE, text |-> "trace"],
     NoSuchKey,
     [kind |-> "error", code |-> "NoSuchBucket"],
     [kind |-> "error", code |-> "AccessDenied"]}

\* response["Step"]["Status"] of describe_step: the state, and for some steps
\* FailureDetails, in which Reason and LogFile are each optional.
LogPaths == {PathOf(bucket, key) : bucket \in Buckets, key \in Keys} \cup MalformedPaths
FailureDetails ==
    {[Reason |-> "boom", LogFile |-> path] : path \in LogPaths}
        \cup {[LogFile |-> path] : path \in LogPaths}
        \cup {[Reason |-> "boom"]}
StepStatuses ==
    {[State |-> s] : s \in ValidStates}
        \cup {[State |-> s, FailureDetails |-> fd] : s \in ValidStates, fd \in FailureDetails}

\* The result with the get_object request that was made on the way to it.
WithGet(result, request) == result @@ ("get_object" :> request)

\* lines 313-323, in two variants that differ from the code in the except clause:
\* one that catches nothing, one that catches everything.
FetchLogCatchingNothing(output, s3) ==
    IF s3.kind = "error" THEN Raised(s3.code)
    ELSE IF ~s3.gzip THEN Raised("BadGzipFile")
    ELSE Returned(<<output, s3.text>>, FALSE)
FetchLogCatchingAll(output, s3) ==
    IF s3.kind = "error" \/ ~s3.gzip THEN Returned(<<output, None>>, TRUE)
    ELSE Returned(<<output, s3.text>>, FALSE)

\* lines 313-323: only NoSuchKey is caught (err stays None and the hint is
\* printed); any other ClientError and a failing decompress propagate.
FetchLog(output, s3) ==
    IF s3.kind = "error"
    THEN IF s3.code = "NoSuchKey" THEN Returned(<<output, None>>, TRUE)
         ELSE Raised(s3.code)
    ELSE IF ~s3.gzip THEN Raised("BadGzipFile")
    ELSE Returned(<<output, s3.text>>, FALSE)

\* step_status: the pair (output, err).  Of output only state and
\* failure_details are kept; name, parameters and failure_mode are copies of
\* response fields.
StepStatus(status, s3) ==
    IF ~HasKey(status, "FailureDetails")
    THEN Returned(<<[state |-> status.State], None>>, FALSE)
    ELSE LET fd == status.FailureDetails
             reason == IF HasKey(fd, "Reason") THEN fd.Reason ELSE "Unknown"
         IN  IF ~HasKey(fd, "LogFile") THEN Raised("KeyError")
             ELSE LET logfile_path == fd.LogFile
                      output == [state |-> status.State,
                                 failure_details |-> [reason |-> reason,
                                                      logfile |-> logfile_path]]
                      logfile_re == ReMatch(logfile_path)
                  IN  IF logfile_re = <<>> THEN Raised("AttributeError")
                      ELSE WithGet(FetchLog(output, s3),
                                   [Bucket |-> BucketOf(logfile_re),
                                    Key |-> ResolveKey(KeyOf(logfile_path, logfile_re))])

CallStepStatus ==
    /\ NoCallPending
    /\ \E status \in StepStatuses, s3 \in GetObjectOutcomes :
        /\ req' = [op |-> "step_status", status |-> status, s3 |-> s3]
        /\ res' = StepStatus(status, s3)
    /\ UNCHANGED <<watchVars, reportVars>>

\* ---- run_steps (lines 351-395) ----

\* class_and_args: the value's Python type and, for a list or a tuple, the
\* class of each (class, args) pair, a class being its dot-separated segments.
Classes == {<<"com", "acme", "Load">>, <<"Main">>}
PairSeqs == UNION {[1 .. n -> Classes] : n \in 0 .. MaxSteps}
ClassAndArgs ==
    {[type |-> t, items |-> items] : t \in {"list", "tuple"}, items \in PairSeqs}
        \cup {[type |-> t, items |-> <<>>] : t \in {"str", "dict", "NoneType"}}

\* What add_job_flow_steps can answer.
AddStepsResponses ==
    {[StepIds |-> ids] : ids \in UNION {[1 .. n -> StepIds] : n \in 0 .. MaxSteps}}
        \cup {[ResponseMetadata |-> "r"], [Error |-> "ClientError"]}

\* line 361: isinstance(class_and_args, list); IsListOrTuple is the wider test.
IsListOrTuple(class_and_args) == class_and_args.type \in {"list", "tuple"}
IsList(class_and_args) == class_and_args.type = "list"

\* line 388: os.path.splitext(pair[0])[1][1:], the text after the last dot.
StepName(class) == IF Len(class) > 1 THEN class[Len(class)] ELSE ""

\* The result with the steps that were submitted on the way to it.
WithSubmit(result, steps) == result @@ ("add_job_flow_steps" :> steps)

RunSteps(class_and_args, terminate_on_failure, response) ==
    IF ~IsList(class_and_args) THEN Returned(<<>>, TRUE)
    ELSE LET failure_op == IF ~terminate_on_failure THEN "CONTINUE"
                           ELSE "TERMINATE_CLUSTER"
             steps == [i \in 1 .. Len(class_and_args.items) |->
                          [Name |-> StepName(class_and_args.items[i]),
                           ActionOnFailure |-> failure_op,
                           Class |-> class_and_args.items[i]]]
         IN  WithSubmit(IF HasKey(response, "Error") THEN Raised(response.Error)
                        ELSE IF ~HasKey(response, "StepIds") THEN Raised("KeyError")
                        ELSE Returned(response.StepIds, FALSE),
                        steps)

CallRunSteps ==
    /\ NoCallPending
    /\ \E class_and_args \in ClassAndArgs, terminate_on_failure \in BOOLEAN,
          response \in AddStepsResponses :
        /\ req' = [op |-> "run_steps", class_and_args |-> class_and_args,
                   terminate_on_failure |-> terminate_on_failure,
                   response |-> response]
        /\ res' = RunSteps(class_and_args, terminate_on_failure, response)
    /\ UNCHANGED <<watchVars, reportVars>>

\* ---- cluster_status (lines 326-349) ----

ClusterStates ==
    {"STARTING", "BOOTSTRAPPING", "RUNNING", "WAITING",
     "TERMINATING", "TERMINATED", "TERMINATED_WITH_ERRORS"}

\* line 332, and the list with WAITING added to it.
TerminatedStatesAndWaiting ==
    {"TERMINATING", "TERMINATED", "TERMINATED_WITH_ERRORS", "WAITING"}
TerminatedStates == {"TERMINATING", "TERMINATED", "TERMINATED_WITH_ERRORS"}

\* response["Cluster"]["Status"] of describe_cluster; the reason of the last
\* state change comes with or without a Message.
ClusterStatuses ==
    {[State |-> s, StateChangeReason |-> r] :
        s \in ClusterStates,
        r \in {[Code |-> "USER_REQUEST", Message |-> "Terminated by user request"],
               [Code |-> "USER_REQUEST"]}}

\* cluster_status: the pair (output, termination_cause); of output the name,
\* a copy of a response field, is left out.
ClusterStatus(status, steps_response) ==
    IF HasKey(steps_response, "Error") THEN Raised(steps_response.Error)
    ELSE LET output == [state |-> status.State, steps |-> steps_response.Steps]
         IN  IF output.state \in TerminatedStates
             THEN IF HasKey(status.StateChangeReason, "Message")
                  THEN Returned(<<output, status.StateChangeReason.Message>>, FALSE)
                  ELSE Raised("KeyError")
             ELSE Returned(<<output, None>>, FALSE)

CallClusterStatus ==
    /\ NoCallPending
    /\ \E status \in ClusterStatuses, steps_response \in ListStepsOutcomes :
        /\ req' = [op |-> "cluster_status", status |-> status,
                   steps_response |-> steps_response]
        /\ res' = ClusterStatus(status, steps_response)
    /\ UNCHANGED <<watchVars, reportVars>>

\* ---- Session.path_exists (src/s3_manager.py lines 136-145) ----

\* line 140 passes Key=["key"]: a list holding the text "key", not parsed["key"].
KeyArgument(parsed) == [type |-> "list", items |-> <<"key">>]

\* What the client can do with that request: refuse the argument before any
\* request is sent (ParamValidationError, which is no ClientError), or answer
\* as get_object does.
PathExistsOutcomes == GetObjectOutcomes \cup {[kind |-> "invalid"]}

\* The result with the value left in self.error (line 142).
WithError(result, err) == result @@ ("error" :> err)

\* path_exists: whether the object of each well-formed path is in the store is
\* an input (exists) the code never gets to ask about.
PathExists(path, s3) ==
    LET parsed == ParsePath(path)
    IN  IF parsed.kind = "raised" THEN parsed
        ELSE WithGet(
                 IF s3.kind = "invalid"
                 THEN WithError(Raised("ParamValidationError"), None)
                 ELSE IF s3.kind = "error"
                 THEN WithError(Returned(s3.code # "NoSuchKey", FALSE), s3.code)
                 ELSE WithError(Returned(TRUE, FALSE), None),
                 [Bucket |-> parsed.value.bucket, Key |-> KeyArgument(parsed.value)])

CallPathExists ==
    /\ NoCallPending
    /\ \/ \E bucket \in Buckets, key \in Keys, exists \in BOOLEAN,
             s3 \in PathExistsOutcomes :
            /\ req' = [op |-> "path_exists", path |-> PathOf(bucket, key),
                       wellFormed |-> TRUE, bucket |-> bucket, key |-> key,
                       exists |-> exists, s3 |-> s3]
            /\ res' = PathExists(PathOf(bucket, key), s3)
       \/ \E path \in MalformedPaths, s3 \in PathExistsOutcomes :
            /\ req' = [op |-> "path_exists", path |-> path, wellFormed |-> FALSE,
                       s3 |-> s3]
            /\ res' = PathExists(path, s3)
    /\ UNCHANGED <<watchVars, reportVars>>

\* ---- the one-shot operations, called in any order with any inputs ----
CallNext ==
    \/ CallLaunchCluster
    \/ CallLaunchClusterWithJobs
    \/ CallParsePath
    \/ CallStepStatus
    \/ CallRunSteps
    \/ CallClusterStatus
    \/ CallPathExists
    \/ TakeResult

CallSpec == Init /\ [][CallNext]_vars

\* ---- properties ----

PollerRunning(i) == pollPc[i] \in {"l211", "l212", "l219"}
ListenerStarted(i) == lsnPc[i] # "none"
ListenerStep(i) == ListenerCompare(i) \/ ListenerReport(i) \/ ListenerCallback(i)
HasValidCallback(i) == callback[i] # None /\ IsValidTarget(callbackArg[i])

\* C1: a watch_step call with a callback and a target that is no step state is
\* rejected before anything is started: when it has returned, neither a poller
\* nor a listener process exists for that call.
C1_RejectedCallStartsNothing ==
    \A i \in Sessions :
        (callback[i] # None /\ ~IsValidTarget(callbackArg[i]) /\ outcome[i] = "rejected")
            => (pollPc[i] = "none" /\ lsnPc[i] = "none")

\* C2: a poller that has observed a shutdown state and stopped has published
\* that state, and it is the last message the poller sent before closing.
C2_ShutdownStatePublishedBeforeClose ==
    \A i \in Sessions : pollPc[i] = "done" => lastSent[i] = observed[i]

\* C3: the listener invokes the callback exactly once, right after consuming
\* the first state equal to the target and never before: once it has consumed
\* such a state it is at the callback or past it, it never fires twice, and it
\* has not fired without having consumed the target.
C3_CallbackOnFirstMatch ==
    \A i \in Sessions :
        HasValidCallback(i) =>
            /\ fired[i] <= 1
            /\ fired[i] = 1 => sawTarget[i]
            /\ sawTarget[i] => lsnPc[i] \in {"l229", "done"}

\* C4: when the target is a shutdown state and the poller stopped on that very
\* state, the callback is invoked: once the session has nothing left to do
\* (poller stopped, pipe drained, caller returned, listener waiting or ended),
\* the callback has fired.
C4_CallbackFiresOnTargetShutdown ==
    \A i \in Sessions :
        ( /\ HasValidCallback(i)
          /\ IsShutdown(callbackArg[i])
          /\ pollPc[i] = "done"
          /\ observed[i] = callbackArg[i]
          /\ callerPc = "idle"
          /\ chan = <<>>
          /\ lsnPc[i] \in {"l223", "l226", "done", "error"} )
            => fired[i] >= 1

\* C5: when the poller has stopped and closed before any published state
\* equalled the target, the listener does not fire the callback and exits
\* cleanly: with the pipe drained it is not left blocked on the pipe, and it
\* has not ended in an error.
C5_ListenerExitsOnClose ==
    \A i \in Sessions :
        ( /\ HasValidCallback(i)
          /\ ListenerStarted(i)
          /\ pollPc[i] = "done"
          /\ chan = <<>>
          /\ ~sawTarget[i] )
            => /\ fired[i] = 0
               /\ lsnPc[i] # "error"
               /\ lsnPc[i] = "done" \/ ENABLED ListenerStep(i)

\* C6: a watch_step call without a callback reads the pipe exactly once: at
\* most one message is ever consumed for that call, by the caller, and no
\* listener is started for it.
C6_NoCallbackReadsOnce ==
    \A i \in Sessions :
        callback[i] = None =>
            /\ callerReads[i] + lsnReads[i] <= 1
            /\ lsnPc[i] = "none"

\* C7: a watch_step call with a callback and a valid target never blocks the
\* caller: the caller never reads the pipe, every step it has left is enabled
\* whatever the poller and the remote step do, and when it has returned both
\* the poller and the listener have been started.
C7_CallbackWatchNeverBlocks ==
    (nCalls >= 1 /\ HasValidCallback(nCalls)) =>
        /\ callerPc # "l263"
        /\ callerReads[nCalls] = 0
        /\ callerPc # "idle" => ENABLED (WatchBranch \/ WatchStartListener)
        /\ callerPc = "idle" =>
              /\ outcome[nCalls] = "returned"
              /\ pollPc[nCalls] # "none"
              /\ ListenerStarted(nCalls)

\* C7 witness: the call has returned while its poller is still polling a step
\* that has published nothing yet.
C7_Witness ==
    /\ nCalls = 1
    /\ HasValidCallback(1)
    /\ callerPc = "idle"
    /\ outcome[1] = "returned"
    /\ pollPc[1] = "l212"
    /\ nSent = 0
    /\ lsnPc[1] = "l223"

\* C8: no two running pollers publish on the same pipe (the model has the one
\* pipe of the ClusterManager, so: at most one poller runs at a time).
C8_OnePollerPerPipe ==
    Cardinality({i \in Sessions : PollerRunning(i)}) <= 1

\* C9: within one watch session the pipe is FIFO and lossless: the k-th read of
\* the receive side (by the caller or the listener) returns the state of the
\* k-th message the poller published.
C9_FifoLossless ==
    nRecv > 0 => (lastRead.seq = nRecv /\ lastRead.st = lastRead.pub)

\* C9 witness: a session without callback in which the caller has read one
\* message, the listener at least one more, and a later message is still queued.
C9_Witness ==
    /\ nCalls = 1
    /\ callerReads[1] = 1
    /\ lsnReads[1] >= 1
    /\ chan # <<>>
    /\ nSent > nRecv

\* C10: whatever report_step returns is a shutdown state, and it is the state
\* on which its wait loop stopped.
C10_ReportReturnsStopState ==
    reportRet # None => (IsShutdown(reportRet) /\ reportRet = stopState)

\* A status query (step_status -> describe_step) issued by session i's poller:
\* the loop test of line 211 or the loop body of line 212 is executed.
PollQueries(i) == pollPc[i] \in {"l211", "l212"} /\ pollPc'[i] # pollPc[i]

\* A status query issued by report_step: line 237 or line 239 is executed.
ReportQueries == reportPc \in {"l237", "l239"} /\ reportPc' # reportPc

\* Session i's poller has received a shutdown state from a query: at the loop
\* test (observed) or in the loop body (the state it then sent).
PollSawShutdown(i) == observed[i] # None \/ IsShutdown(lastSent[i])

\* C11: a component that has observed a shutdown state stops polling: once
\* _poll or report_step has received a shutdown state, that invocation issues
\* no further status query.
C11_NoQueryAfterShutdown ==
    [][ /\ \A i \in Sessions : PollSawShutdown(i) => ~PollQueries(i)
        /\ stopState # None => ~ReportQueries ]_vars

\* C12: launch_cluster and launch_cluster_with_jobs never crash when the
\* run_job_flow response lacks JobFlowId: each reports the missing identifier and
\* returns (launch_cluster the empty string, launch_cluster_with_jobs a
\* dictionary), whatever list_steps returns; with the key present the cluster
\* identifier returned is the one of the response.
C12_LaunchNeverCrashes ==
    /\ req.op = "launch_cluster" =>
         /\ res.kind = "returned"
         /\ ~HasKey(req.response, "JobFlowId") => (res.value = "" /\ res.printed)
         /\ HasKey(req.response, "JobFlowId") => res.value = req.response.JobFlowId
    /\ (req.op = "launch_cluster_with_jobs" /\ HasKey(req.step_response, "Steps")) =>
         /\ res.kind = "returned"
         /\ ~HasKey(req.response, "JobFlowId") => res.printed
         /\ HasKey(req.response, "JobFlowId") =>
               DOMAIN res.value = {req.response.JobFlowId}

\* C17: parse_path round-trips every well-formed path s3://bucket/key: the
\* bucket is the segment between the scheme and the next slash, the key is the
\* whole remainder, and "s3://" + bucket + "/" + key is the path again.
C17_ParsePathRoundTrip ==
    (req.op = "parse_path" /\ req.wellFormed) =>
        /\ res.kind = "returned"
        /\ res.value.bucket = req.bucket
        /\ res.value.key = req.key
        /\ PathOf(res.value.bucket, res.value.key) = req.path

\* The call was a step_status that found failure details and asked the storage
\* layer for the log.
LogWasFetched == req.op = "step_status" /\ HasKey(res, "get_object")

\* C13: when step_status finds failure details and the storage layer answers
\* that the log object does not exist, step_status does not raise; it returns
\* the status record with the failure details (reason and logfile) and None as
\* the diagnostic text.
C13_MissingLogReturnsNone ==
    (LogWasFetched /\ req.s3 = NoSuchKey) =>
        /\ res.kind = "returned"
        /\ res.value[2] = None
        /\ HasKey(res.value[1], "failure_details")
        /\ res.value[1].failure_details.logfile = req.status.FailureDetails.LogFile
        /\ res.value[1].failure_details.reason =
               IF HasKey(req.status.FailureDetails, "Reason")
               THEN req.status.FailureDetails.Reason ELSE "Unknown"
        /\ res.value[1].state = req.status.State

C13_Witness ==
    /\ LogWasFetched /\ req.s3 = NoSuchKey
    /\ res.kind = "returned" /\ res.printed
    /\ res.value[1].failure_details.reason = "Unknown"

\* C14: when the fetch of the log fails with anything other than not-found
\* (another storage error, or a body that does not decompress), step_status
\* ends in an error at its caller and returns no (record, None) pair.
C14_OtherStorageFailuresPropagate ==
    (LogWasFetched /\ req.s3 # NoSuchKey /\ (req.s3.kind = "error" \/ ~req.s3.gzip)) =>
        /\ res.kind = "raised"
        /\ req.s3.kind = "error" => res.exc = req.s3.code

C14_Witness ==
    /\ LogWasFetched
    /\ req.s3.kind = "error" /\ req.s3.code = "AccessDenied"
    /\ res.kind = "raised"

\* C18: the key step_status asks for ends with stderr.gz; a logfile key that
\* does not end with stderr.gz gains the suffix, one that does is left
\* unchanged (so the rule never doubles the suffix), and the rule applied to
\* its own result changes nothing.
C18_LogKeySuffix ==
    LogWasFetched =>
        LET logfile_path == req.status.FailureDetails.LogFile
            logfile_key == KeyOf(logfile_path, ReMatch(logfile_path))
            resolved == res.get_object.Key
        IN  /\ EndsWith(resolved, StderrGz)
            /\ ~EndsWith(logfile_key, StderrGz) => resolved = logfile_key \o StderrGz
            /\ EndsWith(logfile_key, StderrGz) => resolved = logfile_key
            /\ EndsWith(resolved, StderrGz \o StderrGz)
                   => EndsWith(logfile_key, StderrGz \o StderrGz)
            /\ ResolveKey(resolved) = resolved
            /\ ResolveKey(ResolveKey(logfile_key)) = ResolveKey(logfile_key)

\* A key ending in a slash gained the suffix, and the storage layer was asked.
C18_Witness ==
    /\ LogWasFetched
    /\ req.status.FailureDetails.LogFile = PathOf(<<"b">>, <<"a", "/">>)
    /\ res.get_object.Key = <<"a", "/">> \o StderrGz

\* C15: run_steps given a class_and_args that is not a list returns the empty
\* list and submits nothing: no add_job_flow_steps call is made.
C15_NonListRejectedBeforeRemoteWork ==
    (req.op = "run_steps" /\ req.class_and_args.type # "list") =>
        /\ res.kind = "returned"
        /\ res.value = <<>>
        /\ ~HasKey(res, "add_job_flow_steps")

\* A tuple of two pairs was rejected with the message.
C15_Witness ==
    /\ req.op = "run_steps"
    /\ req.class_and_args.type = "tuple" /\ Len(req.class_and_args.items) = 2
    /\ res.kind = "returned" /\ res.value = <<>> /\ res.printed

\* C16: the second element cluster_status returns is other than None only when
\* the cluster state is TERMINATING, TERMINATED or TERMINATED_WITH_ERRORS; for
\* STARTING, BOOTSTRAPPING, RUNNING and WAITING it is None.
C16_CauseOnlyWhenTerminated ==
    (req.op = "cluster_status" /\ res.kind = "returned") =>
        /\ res.value[2] # None =>
               req.status.State \in {"TERMINATING", "TERMINATED", "TERMINATED_WITH_ERRORS"}
        /\ req.status.State \in {"STARTING", "BOOTSTRAPPING", "RUNNING", "WAITING"} =>
               res.value[2] = None

\* A waiting cluster whose last state change has a message: the cause is None;
\* reached along with a terminated cluster that returns its message.
C16_Witness ==
    /\ req.op = "cluster_status" /\ res.kind = "returned"
    /\ req.status.State = "WAITING"
    /\ HasKey(req.status.StateChangeReason, "Message")
    /\ res.value[2] = None

\* C19: the state the poller publishes on a tick is the state it tested against
\* the shutdown states, so every state published inside the polling loop is
\* non-terminal, whatever the remote service answers.
C19_PublishedStatesNonTerminal ==
    /\ \A i \in Sessions : lastSent[i] # None => ~IsShutdown(lastSent[i])
    /\ \A k \in 1 .. Len(chan) : ~IsShutdown(chan[k].pub)

\* C20: watch sessions are independent: the listener of one watch_step call
\* never consumes a message that the poller of another call published.
C20_ListenerReadsOwnSession ==
    [][\A i \in Sessions :
          lsnReads'[i] = lsnReads[i] + 1 => Front(chan).src = i]_vars

\* C23: path_exists asks the storage layer for exactly the bucket and key
\* parsed from the path, and what it returns is True only if the object is
\* there and the request did not fail, False if the object is absent.
C23_PathExistsIffObject ==
    (req.op = "path_exists" /\ req.wellFormed) =>
        /\ res.get_object.Bucket = req.bucket
        /\ res.get_object.Key.type = "str"
        /\ res.get_object.Key.value = req.key
        /\ res.kind = "returned"
        /\ res.value => (req.exists /\ req.s3.kind = "body")
        /\ ~req.exists => ~res.value

\* C21: under fair scheduling, once the step has ended and stays ended, the
\* poller that watch_step started leaves its loop, closes its send side and
\* stops - with or without a listener reading the pipe.
C21_PollerTerminates ==
    \A i \in Sessions : (pollPc[i] = "l211") ~> (pollPc[i] = "done")

\* C22: watch_step called without a callback returns to its caller whenever
\* the step ends, also when it had ended before the call.
C22_NoCallbackWatchReturns ==
    (callerPc = "l263" /\ callback[nCalls] = None) ~> (callerPc = "idle")

====
